---- MODULE Spec2Model ----
(***************************************************************************)
(* The Green Map: city-resolution and filter/render pipeline of app.js.    *)
(*                                                                         *)
(* JavaScript values are modelled as tagged cells [t, v]:                  *)
(*   t = "str"  : a string, v its characters (a sequence of 1-char strings)*)
(*   t = "num"  : a number, v the characters of String(number)             *)
(*   t = "null" : null or undefined (both behave alike in `s || ''`)       *)
(* so that `===`, truthiness, String(), toLowerCase() and the whitespace   *)
(* regex can be computed the way the script computes them.                 *)
(***************************************************************************)
EXTENDS Integers, Sequences, FiniteSets

VARIABLES pc, CITY_INDEX, CITY_INDEX_READY, ROWS_CACHE, options, sel, markers,
          primary, fallback

vars == <<pc, CITY_INDEX, CITY_INDEX_READY, ROWS_CACHE, options, sel, markers,
          primary, fallback>>

\* ---------------------------------------------------------------- bounds
MaxRows == 2
MaxPrimary == 2

\* ---------------------------------------------------------------- values
Null == [t |-> "null", v |-> <<>>]
Str(s) == [t |-> "str", v |-> s]
Num(s) == [t |-> "num", v |-> s]

\* JavaScript truthiness of a cell: '' , 0, null and undefined are falsy.
Truthy(c) == \/ c.t = "str" /\ c.v # <<>>
             \/ c.t = "num" /\ c.v # <<"0">>

\* String(x): String(null) is the text "null".
JsString(c) == IF c.t = "null" THEN <<"n", "u", "l", "l">> ELSE c.v

\* x === s where s is a string (a control's value): no coercion.
StrictEqStr(c, s) == c.t = "str" /\ c.v = s

\* (x || '')
OrEmpty(c) == IF Truthy(c) THEN c ELSE Str(<<>>)

\* ---------------------------------------------------------------- strings
LowerChar(ch) ==
  CASE ch = "A" -> "a" [] ch = "B" -> "b" [] ch = "C" -> "c" [] ch = "D" -> "d"
    [] ch = "E" -> "e" [] ch = "F" -> "f" [] ch = "G" -> "g" [] ch = "H" -> "h"
    [] ch = "I" -> "i" [] ch = "J" -> "j" [] ch = "K" -> "k" [] ch = "L" -> "l"
    [] ch = "M" -> "m" [] ch = "N" -> "n" [] ch = "O" -> "o" [] ch = "P" -> "p"
    [] ch = "Q" -> "q" [] ch = "R" -> "r" [] ch = "S" -> "s" [] ch = "T" -> "t"
    [] ch = "U" -> "u" [] ch = "V" -> "v" [] ch = "W" -> "w" [] ch = "X" -> "x"
    [] ch = "Y" -> "y" [] ch = "Z" -> "z"
    [] OTHER -> ch

ToLowerCase(s) == [i \in 1..Len(s) |-> LowerChar(s[i])]

IsSpace(ch) == ch \in {" ", "\t"}

\* s.replace(/\s+/g, '')
StripSpaces(s) == SelectSeq(s, LAMBDA ch : ~IsSpace(ch))

RECURSIVE TrimStart(_)
TrimStart(s) == IF s # <<>> /\ IsSpace(Head(s)) THEN TrimStart(Tail(s)) ELSE s

RECURSIVE TrimEnd(_)
TrimEnd(s) == IF s # <<>> /\ IsSpace(s[Len(s)])
              THEN TrimEnd(SubSeq(s, 1, Len(s) - 1)) ELSE s

Trim(s) == TrimEnd(TrimStart(s))

\* haystack.includes(needle)
Includes(h, n) == \E i \in 0..(Len(h) - Len(n)) : SubSeq(h, i + 1, i + Len(n)) = n

\* normalize = s => (s || '').toLowerCase().replace(/\s+/g, '')
\* A truthy non-string has no toLowerCase: the call throws a TypeError.
NormalizeThrows(c) == Truthy(c) /\ c.t # "str"

Normalize(c) == StripSpaces(ToLowerCase(OrEmpty(c).v))

\* ---------------------------------------------------------------- city index
\* A state name is a TLA+ string (it is only stored and displayed); NoState
\* stands for the JavaScript null of `... || null`.
NoState == "null"

\* const CITY_COORDS, in the order Object.entries lists it; coordinates are
\* the source's decimals times 10^4.
CITY_COORDS ==
  << 
     [city |-> <<"H", "y", "d", "e", "r", "a", "b", "a", "d">>,
      lat |-> 173850, lon |-> 784867, st |-> "Telangana"],
     [city |-> <<"B", "e", "n", "g", "a", "l", "u", "r", "u">>,
      lat |-> 129716, lon |-> 775946, st |-> "Karnataka"],
     [city |-> <<"C", "h", "e", "n", "n", "a", "i">>,
      lat |-> 130827, lon |-> 802707, st |-> "Tamil Nadu"],
     [city |-> <<"M", "u", "m", "b", "a", "i">>,
      lat |-> 190760, lon |-> 728777, st |-> "Maharashtra"],
     [city |-> <<"P", "u", "n", "e">>,
      lat |-> 185204, lon |-> 738567, st |-> "Maharashtra"],
     [city |-> <<"A", "h", "m", "e", "d", "a", "b", "a", "d">>,
      lat |-> 230225, lon |-> 725714, st |-> "Gujarat"],
     [city |-> <<"S", "u", "r", "a", "t">>,
      lat |-> 211702, lon |-> 728311, st |-> "Gujarat"],
     [city |-> <<"J", "a", "i", "p", "u", "r">>,
      lat |-> 269124, lon |-> 757873, st |-> "Rajasthan"],
     [city |-> <<"K", "o", "l", "k", "a", "t", "a">>,
      lat |-> 225726, lon |-> 883639, st |-> "West Bengal"],
     [city |-> <<"N", "a", "s", "h", "i", "k">>,
      lat |-> 200113, lon |-> 737908, st |-> "Maharashtra"],
     [city |-> <<"C", "o", "i", "m", "b", "a", "t", "o", "r", "e">>,
      lat |-> 110168, lon |-> 769558, st |-> "Tamil Nadu"] >>

\* window.CITY_COORDS || {} : the table when the page exposes it, otherwise {}.
Fallbacks == {<<>>, CITY_COORDS}

\* The City Index is a Map: a function from keys to entries.
EmptyMap == [k \in {} |-> Null]

\* Map.prototype.set
MapSet(m, k, e) == [x \in (DOMAIN m) \union {k} |-> IF x = k THEN e ELSE m[x]]

\* { lat: +c.lat, lon: +c.lng, state: c.admin_name || c.state || null }
PrimaryEntry(c) ==
  [lat |-> c.lat, lon |-> c.lng,
   state |-> IF c.admin_name # "" THEN c.admin_name
             ELSE IF c.state # "" THEN c.state ELSE NoState]

\* { lat: +lat, lon: +lon, state: st || null }
FallbackEntry(f) ==
  [lat |-> f.lat, lon |-> f.lon, state |-> IF f.st # "" THEN f.st ELSE NoState]

\* arr.forEach(c => CITY_INDEX.set(normalize(c.city), ...)) writes into the
\* shared map record by record; a record that is null (c.city throws) or whose
\* city is a truthy non-string (normalize throws) ends the loop by exception,
\* leaving the earlier writes in place.
RecordThrows(c) == c.isNull \/ NormalizeThrows(c.city)

RECURSIVE ForEachPrimary(_, _, _)
ForEachPrimary(idx, arr, i) ==
  IF i > Len(arr) THEN [idx |-> idx, threw |-> FALSE]
  ELSE IF RecordThrows(arr[i]) THEN [idx |-> idx, threw |-> TRUE]
  ELSE ForEachPrimary(MapSet(idx, Normalize(arr[i].city), PrimaryEntry(arr[i])),
                      arr, i + 1)

\* Object.entries(fallback).forEach(([city, [lat, lon, st]]) => CITY_INDEX.set(...))
RECURSIVE ForEachFallback(_, _, _)
ForEachFallback(idx, fb, i) ==
  IF i > Len(fb) THEN idx
  ELSE ForEachFallback(MapSet(idx, Normalize(Str(fb[i].city)), FallbackEntry(fb[i])),
                       fb, i + 1)

\* What the try block sees of the primary resource:
\*   "reject"   fetch rejects              "notok"   r.ok is false
\*   "badjson"  r.json() rejects           "nullbody" the body is JSON null
\*   "array"    the body is an array       "wrapper" an object with .cities
\*   "nocities" an object without .cities (arr is [])

\* Does the try block reach arr.forEach?
ReachesForEach(p) == p.kind \in {"array", "wrapper", "nocities"}

\* The body of loadCityIndex: the map and the flag it leaves behind.
loadCityIndex(idx, p, fb) ==
  LET tried == IF ReachesForEach(p) THEN ForEachPrimary(idx, p.recs, 1)
               ELSE [idx |-> idx, threw |-> TRUE]
  IN IF ~tried.threw
     THEN [idx |-> tried.idx, ready |-> TRUE]
     ELSE LET m == ForEachFallback(tried.idx, fb, 1)
          IN [idx |-> m, ready |-> Cardinality(DOMAIN m) > 0]

\* The absence signal of Map.prototype.get (undefined).
Absent == [lat |-> 0, lon |-> 0, state |-> "undefined"]

\* Variant of resolveCity that looks the raw text up, without normalize.
resolveCityRaw(idx, city) ==
  IF OrEmpty(city).v \in DOMAIN idx THEN idx[OrEmpty(city).v] ELSE Absent

\* resolveCity(city) = CITY_INDEX.get(normalize(city)); callers check
\* NormalizeThrows first.
resolveCity(idx, city) ==
  IF Normalize(city) \in DOMAIN idx THEN idx[Normalize(city)] ELSE Absent

\* ---------------------------------------------------------------- dataset
Controls == {"status", "category", "city", "state", "poc", "gp", "year"}

\* The Row field each filter control reads.
FieldOf(r, k) ==
  CASE k = "status" -> r.Status [] k = "category" -> r.Category
    [] k = "city" -> r.City [] k = "state" -> r.State
    [] k = "poc" -> r.PoC [] k = "gp" -> r.GP [] k = "year" -> r.Year

\* populateFilters: the Set collected per column. Six columns keep truthy
\* values; Year keeps everything but null, undefined and ''. A Set holds a
\* number and the string of its digits as two members, as the tags do here.
InFacet(k, c) == IF k = "year" THEN c # Null /\ c # Str(<<>>) ELSE Truthy(c)

colVals(rows, k) ==
  {FieldOf(rows[i], k) : i \in {j \in 1..Len(rows) : InFacet(k, FieldOf(rows[j], k))}}

\* fillSelect: one option per member after "All"; the option's value is the
\* member converted to a string (opt.value = v). The display order of the
\* options (localeCompare) is not part of the state modelled here.
populateFilters(rows) == [k \in Controls |-> colVals(rows, k)]

OptionValues(opts, k) == {<<>>} \union {JsString(c) : c \in opts[k]}

\* ---------------------------------------------------------------- filter
\* The callback of rows.filter for one row: "keep", "drop", or "throw" when
\* (r.Company || '') is a number, which has no toLowerCase.
RowTest(r, s) ==
  LET q == ToLowerCase(Trim(s["search"]))
  IN IF s["status"] # <<>> /\ ~StrictEqStr(r.Status, s["status"]) THEN "drop"
     ELSE IF s["category"] # <<>> /\ ~StrictEqStr(r.Category, s["category"]) THEN "drop"
     ELSE IF s["city"] # <<>> /\ ~StrictEqStr(r.City, s["city"]) THEN "drop"
     ELSE IF s["state"] # <<>> /\ ~StrictEqStr(OrEmpty(r.State), s["state"]) THEN "drop"
     ELSE IF s["poc"] # <<>> /\ ~StrictEqStr(OrEmpty(r.PoC), s["poc"]) THEN "drop"
     ELSE IF s["gp"] # <<>> /\ ~StrictEqStr(OrEmpty(r.GP), s["gp"]) THEN "drop"
     ELSE IF s["year"] # <<>> /\ JsString(r.Year) # s["year"] THEN "drop"
     ELSE IF q = <<>> THEN "keep"
     ELSE IF OrEmpty(r.Company).t # "str" THEN "throw"
     ELSE IF ~Includes(ToLowerCase(OrEmpty(r.Company).v), q) THEN "drop"
     ELSE "keep"

\* rows.filter(...): the kept rows in order, or an exception from the first
\* row whose callback throws.
RECURSIVE FilterFrom(_, _, _, _)
FilterFrom(rows, s, i, acc) ==
  IF i > Len(rows) THEN [threw |-> FALSE, rows |-> acc]
  ELSE LET t == RowTest(rows[i], s)
       IN IF t = "throw" THEN [threw |-> TRUE, rows |-> <<>>]
          ELSE FilterFrom(rows, s, i + 1,
                          IF t = "keep" THEN Append(acc, rows[i]) ELSE acc)

applyFilters(rows, s) == FilterFrom(rows, s, 1, <<>>)

\* ---------------------------------------------------------------- render
\* Variant of the render loop without the `if (!coord) return` guard.
RECURSIVE PlotFromNoSkip(_, _, _, _)
PlotFromNoSkip(filtered, idx, i, layer) ==
  IF i > Len(filtered) THEN layer
  ELSE IF NormalizeThrows(filtered[i].City) THEN layer
  ELSE PlotFromNoSkip(filtered, idx, i + 1,
                      Append(layer, [row |-> filtered[i],
                                     coord |-> resolveCity(idx, filtered[i].City)]))

\* filtered.forEach(...): a marker per row whose city resolves; a row whose
\* city makes normalize throw ends the pass with the markers added so far.
RECURSIVE PlotFrom(_, _, _, _)
PlotFrom(filtered, idx, i, layer) ==
  IF i > Len(filtered) THEN layer
  ELSE IF NormalizeThrows(filtered[i].City) THEN layer
  ELSE LET coord == resolveCity(idx, filtered[i].City)
       IN PlotFrom(filtered, idx, i + 1,
                   IF coord = Absent THEN layer
                   ELSE Append(layer, [row |-> filtered[i], coord |-> coord]))

\* renderMarkers(rows): clearLayers(), then applyFilters, then the loop. The
\* result is the marker layer the pass leaves, also when it ends by exception.
renderMarkers(rows, s, idx) ==
  LET f == applyFilters(rows, s)
  IN IF f.threw THEN <<>> ELSE PlotFrom(f.rows, idx, 1, <<>>)

\* ---------------------------------------------------------------- inputs
\* Records the primary resource may hold.
PrimaryRec(city, n, admin, st) ==
  [isNull |-> FALSE, city |-> city, lat |-> n, lng |-> n, admin_name |-> admin, state |-> st]

PrimaryRecords ==
  { PrimaryRec(Str(<<"P", "u", "n", "e">>), 1, "MH", ""),
    PrimaryRec(Str(<<"D", "E", "L", " ", "h", "i">>), 2, "", "DL"),
    PrimaryRec(Null, 3, "", ""),
    PrimaryRec(Num(<<"7">>), 4, "", ""),
    [isNull |-> TRUE, city |-> Null, lat |-> 0, lng |-> 0, admin_name |-> "", state |-> ""] }

SeqsUpTo(S, n) == UNION {[1..m -> S] : m \in 0..n}

\* Every outcome of the primary fetch, with up to MaxPrimary records.
PrimaryOutcomes ==
  {[kind |-> k, recs |-> <<>>] : k \in {"reject", "notok", "badjson", "nullbody", "nocities"}}
  \union
  {[kind |-> k, recs |-> r] : k \in {"array", "wrapper"}, r \in SeqsUpTo(PrimaryRecords, MaxPrimary)}

\* The sources the whole-page specification starts from: a failed fetch with
\* the fallback table, a clean load, a load with a record without a city and
\* no fallback table, a load that throws part-way with the fallback table.
PageSources ==
  { [p |-> [kind |-> "notok", recs |-> <<>>], fb |-> CITY_COORDS],
    [p |-> [kind |-> "array",
            recs |-> <<PrimaryRec(Str(<<"P", "u", "n", "e">>), 1, "MH", "")>>],
     fb |-> CITY_COORDS],
    [p |-> [kind |-> "wrapper",
            recs |-> <<PrimaryRec(Str(<<"D", "E", "L", " ", "h", "i">>), 2, "", "DL"),
                       PrimaryRec(Null, 3, "", "")>>],
     fb |-> <<>>],
    [p |-> [kind |-> "array",
            recs |-> <<PrimaryRec(Str(<<"D", "E", "L", " ", "h", "i">>), 2, "", "DL"),
                       PrimaryRec(Num(<<"7">>), 4, "", "")>>],
     fb |-> CITY_COORDS] }

\* Rows as loadExcelRows returns them (raw cells: text, numbers, null).
Row(city, st, co, cat, status, yr, poc, gp) ==
  [City |-> city, State |-> st, Company |-> co, Category |-> cat,
   Status |-> status, Year |-> yr, PoC |-> poc, GP |-> gp]

SampleRows ==
  { Row(Str(<<"P", "u", "n", "e">>), Null, Str(<<"A", "b">>), Str(<<"c">>),
        Str(<<"H", "o", "l", "d">>), Num(<<"2", "0", "2", "0">>), Null, Null),
    Row(Str(<<"p", "U", " ", "N", "E">>), Str(<<"M", "H">>), Str(<<"b">>), Null,
        Str(<<"H", "o", "l", "d">>), Str(<<"2", "0", "2", "0">>), Str(<<"k">>), Null),
    Row(Null, Null, Num(<<"3", "6", "0">>), Null, Num(<<"7">>), Null, Null, Str(<<"g">>)),
    Row(Num(<<"5", "0", "0", "0", "0", "1">>), Null, Str(<<"A", "B">>), Null,
        Str(<<"D", "o", "n", "e">>), Num(<<"0">>), Null, Null) }

Datasets == SeqsUpTo(SampleRows, MaxRows)

\* Texts typed into the search box.
SearchTerms == {<<>>, <<"a">>, <<" ", "B", " ">>}

EmptySelection == [k \in Controls \union {"search"} |-> <<>>]

\* ---------------------------------------------------------------- page
\* pc is the position of init(): "awaitCity" (inside await loadCityIndex()),
\* "awaitRows" (inside await loadExcelRows()), "done" (init ran to its end or
\* ended in its last call), "failed" (loadExcelRows threw).
Init ==
  /\ pc = "awaitCity"
  /\ CITY_INDEX = EmptyMap
  /\ CITY_INDEX_READY = FALSE
  /\ ROWS_CACHE = <<>>
  /\ options = [k \in Controls |-> {}]
  /\ sel = EmptySelection
  /\ markers = <<>>
  /\ primary = [kind |-> "pending", recs |-> <<>>]
  /\ fallback = <<>>

\* loadCityIndex runs to its end with primary outcome p and fallback table fb.
LoadCityIndexWith(p, fb) ==
  /\ pc = "awaitCity"
  /\ LET r == loadCityIndex(CITY_INDEX, p, fb)
     IN /\ CITY_INDEX' = r.idx
        /\ CITY_INDEX_READY' = r.ready
  /\ primary' = p
  /\ fallback' = fb
  /\ pc' = "awaitRows"
  /\ UNCHANGED <<ROWS_CACHE, options, sel, markers>>

LoadCityIndex == \E src \in PageSources : LoadCityIndexWith(src.p, src.fb)

BuildCityIndex == \E p \in PrimaryOutcomes, fb \in Fallbacks : LoadCityIndexWith(p, fb)

\* loadExcelRows resolves with rows; init stores them, fills the selects and
\* renders (lines 191-193 run without yielding).
LoadExcelRowsOk ==
  /\ pc = "awaitRows"
  /\ \E rows \in Datasets :
       /\ ROWS_CACHE' = rows
       /\ options' = populateFilters(rows)
       /\ markers' = renderMarkers(rows, sel, CITY_INDEX)
  /\ pc' = "done"
  /\ UNCHANGED <<CITY_INDEX, CITY_INDEX_READY, sel, primary, fallback>>

\* Variant of the failing load that has already published rows when it throws.
LoadExcelRowsFailAfterCaching ==
  /\ pc = "awaitRows"
  /\ \E rows \in Datasets : ROWS_CACHE' = rows
  /\ pc' = "failed"
  /\ UNCHANGED <<CITY_INDEX, CITY_INDEX_READY, options, sel, markers, primary, fallback>>

\* loadExcelRows throws (non-success status, or XLSX.read throws): init ends
\* there.
LoadExcelRowsFail ==
  /\ pc = "awaitRows"
  /\ pc' = "failed"
  /\ UNCHANGED <<CITY_INDEX, CITY_INDEX_READY, ROWS_CACHE, options, sel, markers,
                 primary, fallback>>

\* Variant of the change listener that keeps the filtered rows as the cache.
FilterChangeOnSubset ==
  \E k \in Controls : \E v \in OptionValues(options, k) :
    /\ sel' = [sel EXCEPT ![k] = v]
    /\ markers' = renderMarkers(ROWS_CACHE, sel', CITY_INDEX)
    /\ ROWS_CACHE' = applyFilters(ROWS_CACHE, sel').rows
    /\ UNCHANGED <<pc, CITY_INDEX, CITY_INDEX_READY, options, primary, fallback>>

\* A change event of one of the seven selects: the control holds one of its
\* options' values and the listener renders ROWS_CACHE.
FilterChange ==
  \E k \in Controls : \E v \in OptionValues(options, k) :
    /\ sel' = [sel EXCEPT ![k] = v]
    /\ markers' = renderMarkers(ROWS_CACHE, sel', CITY_INDEX)
    /\ UNCHANGED <<pc, CITY_INDEX, CITY_INDEX_READY, ROWS_CACHE, options, primary, fallback>>

\* An input event of the search box.
SearchInput ==
  \E q \in SearchTerms :
    /\ sel' = [sel EXCEPT !["search"] = q]
    /\ markers' = renderMarkers(ROWS_CACHE, sel', CITY_INDEX)
    /\ UNCHANGED <<pc, CITY_INDEX, CITY_INDEX_READY, ROWS_CACHE, options, primary, fallback>>

Next == LoadCityIndex \/ LoadExcelRowsOk \/ LoadExcelRowsFail \/ FilterChange \/ SearchInput

Spec == Init /\ [][Next]_vars

\* The City Index alone, over every outcome of the primary fetch.
NextIndex == BuildCityIndex

SpecIndex == Init /\ [][NextIndex]_vars

\* ================================================================ claims
Range(f) == {f[i] : i \in DOMAIN f}

CountIn(seq, P(_)) == Cardinality({i \in 1..Len(seq) : P(seq[i])})

RECURSIVE IsSubSeq(_, _)
IsSubSeq(b, a) ==
  IF b = <<>> THEN TRUE
  ELSE IF a = <<>> THEN FALSE
  ELSE IF Head(a) = Head(b) THEN IsSubSeq(Tail(b), Tail(a))
  ELSE IsSubSeq(b, Tail(a))

IndexBuilt == pc # "awaitCity"

\* The primary source failed: the try block left by exception.
PrimaryFailed ==
  \/ ~ReachesForEach(primary)
  \/ \E i \in 1..Len(primary.recs) : RecordThrows(primary.recs[i])

\* A row satisfies the selection; a row's city resolves.
Satisfies(r, s) == RowTest(r, s) = "keep"
Resolves(c) == ~NormalizeThrows(c) /\ resolveCity(CITY_INDEX, c) # Absent

\* C1: once init has completed, the marker layer holds exactly one marker for
\* each row of ROWS_CACHE that satisfies the current selection and whose city
\* resolves in the City Index, and no other marker.
C1_LayerIsCurrentSelection ==
  pc = "done" =>
    /\ \A i \in 1..Len(markers) : markers[i].row \in Range(ROWS_CACHE)
    /\ \A r \in Range(ROWS_CACHE) :
         CountIn(markers, LAMBDA m : m.row = r)
           = IF Satisfies(r, sel) /\ Resolves(r.City)
             THEN CountIn(ROWS_CACHE, LAMBDA x : x = r) ELSE 0

\* C2: when loadCityIndex has finished the index holds one source only: the
\* primary records, or, when the primary source failed in any way, exactly
\* the entries of the fallback table.
C2_SingleSource ==
  IndexBuilt =>
    CITY_INDEX = IF PrimaryFailed
                 THEN ForEachFallback(EmptyMap, fallback, 1)
                 ELSE ForEachPrimary(EmptyMap, primary.recs, 1).idx

\* C3: whatever the sources held, a null city is unresolved: resolveCity
\* returns absent for it.
C3_NullCityUnresolved ==
  IndexBuilt => resolveCity(CITY_INDEX, Null) = Absent

\* C4: when loadCityIndex has finished, CITY_INDEX_READY is true iff the index
\* has at least one entry.
C4_ReadyIffNonEmpty ==
  IndexBuilt => (CITY_INDEX_READY <=> DOMAIN CITY_INDEX # {})

\* C5: after a failed dataset load the row cache is empty, no facet value is
\* offered by any control and the marker layer is empty, whatever events
\* follow.
C5_FailedLoadLeavesNothing ==
  pc = "failed" =>
    /\ ROWS_CACHE = <<>>
    /\ \A k \in Controls : options[k] = {}
    /\ markers = <<>>

C5_Witness ==
  /\ pc = "failed"
  /\ sel["search"] = <<"a">>
  /\ DOMAIN CITY_INDEX # {}

\* C6: making one more criterion active (a facet control or the search term)
\* turns the result of applyFilters into a sub-sequence of the former result.
C6_Monotonic ==
  pc = "done" =>
    \A k \in Controls \union {"search"} :
      sel[k] = <<>> =>
        \A v \in (IF k = "search" THEN SearchTerms ELSE OptionValues(options, k)) :
          LET a == applyFilters(ROWS_CACHE, sel)
              b == applyFilters(ROWS_CACHE, [sel EXCEPT ![k] = v])
          IN ~a.threw /\ ~b.threw /\ IsSubSeq(b.rows, a.rows)

\* C7: once init has completed, an event changes neither the row cache, nor
\* the City Index, nor its ready flag, nor the options of the controls.
C7_EventsKeepData ==
  [][pc = "done" => UNCHANGED <<pc, ROWS_CACHE, CITY_INDEX, CITY_INDEX_READY, options>>]_vars

C7_Witness ==
  /\ pc = "done"
  /\ sel["status"] # <<>>
  /\ sel["search"] # <<>>
  /\ markers # <<>>
  /\ Len(markers) < Len(ROWS_CACHE)

UpperChar(ch) ==
  CASE ch = "a" -> "A" [] ch = "b" -> "B" [] ch = "c" -> "C" [] ch = "d" -> "D"
    [] ch = "e" -> "E" [] ch = "f" -> "F" [] ch = "g" -> "G" [] ch = "h" -> "H"
    [] ch = "i" -> "I" [] ch = "j" -> "J" [] ch = "k" -> "K" [] ch = "l" -> "L"
    [] ch = "m" -> "M" [] ch = "n" -> "N" [] ch = "o" -> "O" [] ch = "p" -> "P"
    [] ch = "q" -> "Q" [] ch = "r" -> "R" [] ch = "s" -> "S" [] ch = "t" -> "T"
    [] ch = "u" -> "U" [] ch = "v" -> "V" [] ch = "w" -> "W" [] ch = "x" -> "X"
    [] ch = "y" -> "Y" [] ch = "z" -> "Z"
    [] OTHER -> ch

ToUpperCase(s) == [i \in 1..Len(s) |-> UpperChar(s[i])]

\* Strings that differ from a name only in letter case or in whitespace.
Variants(n) ==
  { n, ToLowerCase(n), ToUpperCase(n), <<" ">> \o n \o <<"\t">>,
    IF n = <<>> THEN n ELSE <<Head(n)>> \o <<" ", " ">> \o ToUpperCase(Tail(n)) }

\* The city names of the source that populated the index.
PopulatingNames ==
  IF PrimaryFailed
  THEN {fallback[i].city : i \in 1..Len(fallback)}
  ELSE {primary.recs[i].city.v : i \in {j \in 1..Len(primary.recs) : primary.recs[j].city.t = "str"}}

C9_OptionSelectsItsRows ==
  pc = "done" =>
    \A k \in Controls : \A c \in options[k] :
      LET f == applyFilters(ROWS_CACHE, [EmptySelection EXCEPT ![k] = JsString(c)])
      IN /\ ~f.threw
         /\ f.rows = SelectSeq(ROWS_CACHE, LAMBDA r : FieldOf(r, k) = c)
         /\ f.rows # <<>>

\* C10: in every state each marker belongs to a row of the current row cache
\* whose city resolves in the current City Index, and while either load is
\* pending the marker layer is empty.
C10_MarkersOnlyFromLoadedData ==
  /\ \A i \in 1..Len(markers) :
       /\ markers[i].row \in Range(ROWS_CACHE)
       /\ Resolves(markers[i].row.City)
       /\ markers[i].coord = resolveCity(CITY_INDEX, markers[i].row.City)
  /\ pc \in {"awaitCity", "awaitRows"} => markers = <<>>

C10_Witness ==
  /\ pc = "awaitRows"
  /\ sel["search"] # <<>>
  /\ DOMAIN CITY_INDEX # {}
  /\ markers = <<>>

====
